---- MODULE Spec2Model ----
(***************************************************************************)
(* Model of the windowed asynchronous frame output of vspipe-rs            *)
(* (vapoursynth/examples/vspipe.rs): output() issues the initial window    *)
(* of requests and blocks on the done flag; frame_done_callback runs once  *)
(* per completed request, under the output_state mutex.                    *)
(***************************************************************************)
EXTENDS Integers, Sequences, FiniteSets, TLC

\* Bounds of the model.
MaxFrames == 3      \* end_frame ranges over 0..MaxFrames-1
MaxRequests == 2    \* window sizes (parameters.requests) 1..MaxRequests

VARIABLES
    num_frames,             \* the clip length, node.info().num_frames
    \* OutputParameters
    start_frame,
    end_frame,
    requests,
    have_alpha,             \* parameters.alpha_node.is_some()
    y4m,                    \* parameters.y4m
    has_timecodes,          \* timecodes_file.is_some()
    \* OutputState (behind the output_state mutex)
    output_target,          \* sequence of frame indices handed to print_frames
    timecodes_file,         \* sequence of the lines written to the timecodes file
    flush,                  \* output_target.flush(): "none", "ok" or "failed"
    error,                  \* <<>> for None, <<n, kind>> for Some((n, error))
    reorder_map,            \* index -> <<primary present, alpha present>>
    last_requested_frame,
    next_output_frame,
    \* SharedData.output_done_pair
    done,                   \* the bool behind the done mutex
    done_lock,              \* owner of the done mutex
    state_lock,             \* owner of the output_state mutex
    \* threads
    pc,                     \* position of the thread running output()
    i,                      \* loop variable of the initial request loop
    initial_requests,
    cb_pc,                  \* position of the callback holding the state mutex
    result,                 \* what output() returned
    \* the producer
    pending,                \* requests issued whose callback has not run yet
    \* observation of the run (history, not read by the program)
    issued,                 \* sequence of get_frame_async calls <<n, alpha>>
    delivered,              \* <<n, alpha>> whose callback ran with Ok(frame)
    failed,                 \* <<n, alpha>> whose callback ran with Err(error)
    write_failed,           \* frame indices for which print_frames returned Err
    latches,                \* number of assignments of Some(..) to state.error
    removed,                \* indices the drain loop removed from reorder_map
    held,                   \* indices left complete in reorder_map by a callback
    notifies                \* number of times the done flag was set and notified

vars == <<num_frames, start_frame, end_frame, requests, have_alpha, y4m, has_timecodes,
          output_target, timecodes_file, flush, error, reorder_map, last_requested_frame,
          next_output_frame, done, done_lock, state_lock, pc, i,
          initial_requests, cb_pc, result, pending, issued, delivered,
          failed, write_failed, latches, removed, held, notifies>>

params == <<num_frames, start_frame, end_frame, requests, have_alpha, y4m,
            has_timecodes>>
files == <<timecodes_file, flush>>
history == <<issued, delivered, failed, write_failed, latches, removed,
             held, notifies>>

NoError == <<>>
\* Which print_frames call fails: that of frame wf; -1 for none.
WriteChoices == {-1} \cup (0 .. MaxFrames - 1)
EmptyMap == [k \in {} |-> <<FALSE, FALSE>>]

Min(a, b) == IF a < b THEN a ELSE b

\* is_completed without the alpha half.
is_completed_primary_only(entry, alpha_needed) == entry[1]

\* Checks if the frame is completed: we have the frame and, if needed, its alpha.
is_completed(entry, alpha_needed) ==
    entry[1] /\ (~alpha_needed \/ entry[2])

\* state.reorder_map.entry(n).or_insert((None, None)), then set one half.
insert_frame(map, n, alpha) ==
    LET old == IF n \in DOMAIN map THEN map[n] ELSE <<FALSE, FALSE>>
        new == IF alpha THEN <<old[1], TRUE>> ELSE <<TRUE, old[2]>>
    IN  [k \in (DOMAIN map) \cup {n} |-> IF k = n THEN new ELSE map[k]]

\* A remove that leaves the slot in the map.
remove_frame_keep(map, n) == map

\* state.reorder_map.remove(&n)
remove_frame(map, n) == [k \in (DOMAIN map) \ {n} |-> map[k]]

\* node.get_frame_async(n, callback): the producer owes one callback for it.
get_frame_async(pend, n, alpha) == pend \cup {<<n, alpha>>}

\* The requests one "request one more frame" makes for index n.
request_pair(n, alpha_needed) ==
    IF alpha_needed THEN <<(<<n, FALSE>>), (<<n, TRUE>>)>> ELSE <<(<<n, FALSE>>)>>

\* The initial loop without the window: one request per frame of the range.
initial_window_unclamped(req, start, end) == end - start + 1

\* cmp::min(parameters.requests, end_frame - start_frame + 1)
initial_window(req, start, end) == Min(req, end - start + 1)

\* last_requested_frame: parameters.start_frame + initial_requests - 1
initial_last_requested(start, initial) == start + initial - 1

\* next_output_frame: 0
initial_next_output(start) == 0

\* for n in 0..initial_requests { get_frame_async(n, ..) }
initial_request_index(start, k) == k

\* A print that does not look at the latched error.
may_print_always(err) == TRUE

\* if state.error.is_none() { print_frames(..) }
may_print(err) == err = NoError

\* Err(error) => state.error = Some((n, ..))
latch_failure(err, n) == <<n, "get_frame">>

\* A request condition that does not wait for the slot to be complete.
request_more_any(map, n, alpha_needed, last, end) == last < end

\* A request condition without the test against end_frame.
request_more_unbounded(map, n, alpha_needed, last, end) ==
    is_completed(map[n], alpha_needed)

\* is_completed(&state.reorder_map[&n], ..) && last_requested_frame < end_frame
request_more(map, n, alpha_needed, last, end) ==
    is_completed(map[n], alpha_needed) /\ last < end

\* The gate one frame short: the last frame is still to be emitted.
output_finished_at_end(next, end) == next = end

\* A done condition that is off by one: true from the last frame on.
output_finished_early(next, end) == next >= end

\* if state.next_output_frame == parameters.end_frame + 1
output_finished(next, end) == next = end + 1

\* A drain that prints the frame of the callback's own index n as soon as it is
\* complete, instead of the one at next_output_frame.
drain_unordered(map, next, err, out, bad, set, n, wf) ==
    IF n \in DOMAIN map /\ is_completed(map[n], have_alpha)
    THEN [map |-> remove_frame(map, n), next |-> next + 1,
          err |-> IF may_print(err) /\ n = wf THEN <<n, "write">> ELSE err,
          out |-> IF may_print(err) THEN Append(out, n) ELSE out,
          bad |-> IF may_print(err) /\ n = wf THEN bad \cup {n} ELSE bad,
          set |-> IF may_print(err) /\ n = wf THEN set + 1 ELSE set]
    ELSE [map |-> map, next |-> next, err |-> err, out |-> out,
          bad |-> bad, set |-> set]

\* The drain loop ("Output all completed frames"), run by the callback of
\* index n; the write of frame wf fails. out collects the frames handed to
\* print_frames, bad those whose print_frames returned Err.
RECURSIVE drain(_, _, _, _, _, _, _, _)
drain(map, next, err, out, bad, set, n, wf) ==
    IF next \in DOMAIN map /\ is_completed(map[next], have_alpha)
    THEN LET printed == may_print(err)
             fails == printed /\ next = wf
         IN  drain(remove_frame(map, next),
                   next + 1,
                   IF fails THEN <<n, "write">> ELSE err,
                   IF printed THEN Append(out, next) ELSE out,
                   IF fails THEN bad \cup {next} ELSE bad,
                   IF fails THEN set + 1 ELSE set,
                   n, wf)
    ELSE [map |-> map, next |-> next, err |-> err, out |-> out,
          bad |-> bad, set |-> set]

\* A range check that forgets end < start.
range_invalid_lax(start, end, frames) == start < 0 \/ end >= frames

\* "Check if the input start and end frames make sense."
range_invalid(start, end, frames) ==
    start < 0 \/ end < start \/ end >= frames

\* "Can't apply y4m headers to a clip with alpha"
y4m_with_alpha(with_y4m, with_alpha) == with_y4m /\ with_alpha

\* writeln!(timecodes_file, "# timecode format v2")
timecodes_header(with_timecodes) ==
    IF with_timecodes THEN <<"# timecode format v2">> ELSE <<>>

\* run() has parsed its arguments and is about to check the range; the
\* shared state of output() does not exist yet.
InitState ==
    /\ initial_requests = 0
    /\ output_target = <<>>
    /\ timecodes_file = <<>>
    /\ flush = "none"
    /\ error = NoError
    /\ reorder_map = EmptyMap
    /\ last_requested_frame = 0
    /\ next_output_frame = 0
    /\ done = FALSE
    /\ done_lock = "free"
    /\ state_lock = "free"
    /\ pc = "run"
    /\ i = 0
    /\ cb_pc = "idle"
    /\ result = <<"none">>
    /\ pending = {}
    /\ issued = <<>>
    /\ delivered = {}
    /\ failed = {}
    /\ write_failed = {}
    /\ latches = 0
    /\ removed = {}
    /\ held = {}
    /\ notifies = 0

\* The arguments run() was given: a clip of MaxFrames frames, any range
\* around it, any window size, with or without alpha, y4m and timecodes.
Init ==
    /\ num_frames = MaxFrames
    /\ start_frame \in -1 .. MaxFrames - 1
    /\ end_frame \in -1 .. MaxFrames
    /\ requests \in 1 .. MaxRequests
    /\ have_alpha \in BOOLEAN
    /\ y4m \in BOOLEAN
    /\ has_timecodes \in BOOLEAN
    /\ InitState

\* run(): the check of the range, then the call of output().
RunCheck ==
    /\ pc = "run"
    /\ IF range_invalid(start_frame, end_frame, num_frames)
       THEN /\ pc' = "returned"
            /\ result' = <<"config_error", "range">>
       ELSE /\ pc' = "output"
            /\ UNCHANGED result
    /\ UNCHANGED <<params, files, output_target, error, reorder_map,
                   last_requested_frame, next_output_frame, done, done_lock,
                   state_lock, i, initial_requests, cb_pc, pending, history>>

\* output() up to the creation of the shared state: the y4m check and header,
\* the timecodes header (header_ok: whether these writes succeed), then
\* initial_requests and the OutputState.
OutputCreate(header_ok) ==
    /\ pc = "output"
    /\ IF y4m_with_alpha(y4m, have_alpha)
       THEN /\ pc' = "returned"
            /\ result' = <<"config_error", "y4m with alpha">>
            /\ UNCHANGED <<timecodes_file, initial_requests,
                           last_requested_frame, next_output_frame>>
       ELSE IF ~header_ok
       THEN /\ y4m \/ has_timecodes
            /\ pc' = "returned"
            /\ result' = <<"header_error">>
            /\ UNCHANGED <<timecodes_file, initial_requests,
                           last_requested_frame, next_output_frame>>
       ELSE /\ pc' = "request"
            /\ timecodes_file' = timecodes_header(has_timecodes)
            /\ initial_requests' =
                   initial_window(requests, start_frame, end_frame)
            /\ last_requested_frame' =
                   initial_last_requested(start_frame, initial_requests')
            /\ next_output_frame' = initial_next_output(start_frame)
            /\ UNCHANGED result
    /\ UNCHANGED <<params, flush, output_target, error, reorder_map, done,
                   done_lock, state_lock, i, cb_pc, pending, history>>

\* One iteration of "Start off by requesting some frames".
OutputRequest ==
    /\ pc = "request"
    /\ i < initial_requests
    /\ LET n == initial_request_index(start_frame, i)
           reqs == request_pair(n, have_alpha)
       IN  /\ pending' = IF have_alpha
                         THEN get_frame_async(get_frame_async(pending, n, FALSE), n, TRUE)
                         ELSE get_frame_async(pending, n, FALSE)
           /\ issued' = issued \o reqs
    /\ i' = i + 1
    /\ UNCHANGED <<params, files, output_target, error, reorder_map,
                   last_requested_frame, next_output_frame, done, done_lock,
                   state_lock, pc, initial_requests, cb_pc, result,
                   delivered, failed, write_failed, latches, removed, held,
                   notifies>>

\* let mut done = lock.lock().unwrap(), once the request loop is over.
OutputLockDone ==
    /\ pc = "request"
    /\ i = initial_requests
    /\ done_lock = "free"
    /\ done_lock' = "output"
    /\ pc' = "check"
    /\ UNCHANGED <<params, files, output_target, error, reorder_map,
                   last_requested_frame, next_output_frame, done, state_lock,
                   i, initial_requests, cb_pc, result, pending, history>>

\* while !*done { done = cvar.wait(done) }: the test, and the release of the
\* done mutex when the thread goes to wait.
OutputCheck ==
    /\ pc = "check"
    /\ IF done
       THEN /\ pc' = "lock_state"
            /\ UNCHANGED done_lock
       ELSE /\ pc' = "wait"
            /\ done_lock' = "free"
    /\ UNCHANGED <<params, files, output_target, error, reorder_map,
                   last_requested_frame, next_output_frame, done, state_lock,
                   i, initial_requests, cb_pc, result, pending, history>>

\* A condition variable may wake its waiter without a notify.
OutputSpuriousWake ==
    /\ pc = "wait"
    /\ pc' = "woken"
    /\ UNCHANGED <<params, files, output_target, error, reorder_map,
                   last_requested_frame, next_output_frame, done, done_lock,
                   state_lock, i, initial_requests, cb_pc, result, pending,
                   history>>

\* cvar.wait returns with the done mutex held again.
OutputReacquire ==
    /\ pc = "woken"
    /\ done_lock = "free"
    /\ done_lock' = "output"
    /\ pc' = "check"
    /\ UNCHANGED <<params, files, output_target, error, reorder_map,
                   last_requested_frame, next_output_frame, done, state_lock,
                   i, initial_requests, cb_pc, result, pending, history>>

\* A result that does not look at the latched error.
output_result_ignores_latch(err, flush_ok) ==
    IF flush_ok THEN <<"ok">> ELSE <<"flush_error">>

\* A result in which a failed flush comes before the latched error.
output_result_flush_first(err, flush_ok) ==
    IF ~flush_ok THEN <<"flush_error">>
    ELSE IF err # NoError THEN <<"error", err[1], err[2]>>
    ELSE <<"ok">>

\* What output() returns once it holds the state: the latched error, else the
\* outcome of the flush.
output_result(err, flush_ok) ==
    IF err # NoError THEN <<"error", err[1], err[2]>>
    ELSE IF flush_ok THEN <<"ok">>
    ELSE <<"flush_error">>

\* Whether output() flushes the output file, and how that ends: the flush is
\* after the return of the latched error.
flush_outcome(err, flush_ok) ==
    IF err # NoError THEN "none"
    ELSE IF flush_ok THEN "ok"
    ELSE "failed"

\* let mut state = shared_data.output_state.lock().unwrap() and the rest of
\* output(); both guards are dropped on return.
OutputFinish(flush_ok) ==
    /\ pc = "lock_state"
    /\ state_lock = "free"
    /\ result' = output_result(error, flush_ok)
    /\ flush' = flush_outcome(error, flush_ok)
    /\ pc' = "returned"
    /\ done_lock' = "free"
    /\ UNCHANGED <<params, timecodes_file, output_target, error, reorder_map,
                   last_requested_frame, next_output_frame, done, state_lock,
                   i, initial_requests, cb_pc, pending, history>>

\* frame_done_callback(frame, n, _, shared_data, alpha), from taking the
\* output_state mutex to the test of next_output_frame: ok says whether the
\* producer delivered Ok(frame), wf which frame's write fails.
FrameDoneCallback(n, alpha, ok, wf) ==
    /\ <<n, alpha>> \in pending
    /\ state_lock = "free"
    /\ cb_pc = "idle"
    /\ pending' = IF ok /\ request_more(insert_frame(reorder_map, n, alpha), n,
                                        have_alpha, last_requested_frame, end_frame)
                  THEN LET p1 == get_frame_async(pending \ {<<n, alpha>>},
                                                 last_requested_frame + 1, FALSE)
                       IN  IF have_alpha
                           THEN get_frame_async(p1, last_requested_frame + 1, TRUE)
                           ELSE p1
                  ELSE pending \ {<<n, alpha>>}
    /\ IF ~ok
       THEN /\ error' = latch_failure(error, n)
            /\ failed' = failed \cup {<<n, alpha>>}
            /\ latches' = latches + 1
            /\ UNCHANGED <<output_target, reorder_map, last_requested_frame,
                           next_output_frame, issued, delivered, write_failed,
                           removed, held>>
       ELSE LET map1 == insert_frame(reorder_map, n, alpha)
                more == request_more(map1, n, have_alpha,
                                     last_requested_frame, end_frame)
                d == drain(map1, next_output_frame, error, <<>>, {}, 0, n, wf)
            IN  /\ last_requested_frame' =
                       IF more THEN last_requested_frame + 1
                       ELSE last_requested_frame
                /\ issued' =
                       IF more
                       THEN issued \o request_pair(last_requested_frame + 1,
                                                   have_alpha)
                       ELSE issued
                /\ reorder_map' = d.map
                /\ next_output_frame' = d.next
                /\ error' = d.err
                /\ output_target' = output_target \o d.out
                /\ write_failed' = write_failed \cup d.bad
                /\ latches' = latches + d.set
                /\ delivered' = delivered \cup {<<n, alpha>>}
                /\ removed' = removed \cup (next_output_frame .. d.next - 1)
                /\ held' = held \cup {k \in DOMAIN d.map :
                                         is_completed(d.map[k], have_alpha)}
                /\ UNCHANGED failed
    /\ IF output_finished(next_output_frame', end_frame)
       THEN /\ cb_pc' = "signal"
            /\ state_lock' = "callback"
       ELSE /\ cb_pc' = "idle"
            /\ state_lock' = "free"
    /\ UNCHANGED <<params, files, done, done_lock, pc, i, initial_requests, result,
                   notifies>>

\* A notify that wakes nobody.
notify_lost(p) == p

\* cvar.notify_one(): the thread blocked in cvar.wait, if there is one, is
\* woken and has to take the done-flag lock again; a thread that is not waiting
\* is not affected.
notify_one(p) == IF p = "wait" THEN "woken" ELSE p

\* *shared_data.output_done_pair.0.lock().unwrap() = true, whose guard is
\* dropped at the end of the statement, and cvar.notify_one(), which wakes the
\* thread waiting in cvar.wait, if there is one.
CallbackSignal ==
    /\ cb_pc = "signal"
    /\ done_lock = "free"
    /\ done' = TRUE
    /\ notifies' = notifies + 1
    /\ pc' = notify_one(pc)
    /\ cb_pc' = "return"
    /\ UNCHANGED <<params, files, output_target, error, reorder_map,
                   last_requested_frame, next_output_frame, done_lock,
                   state_lock, i, initial_requests, result, pending, issued,
                   delivered, failed, write_failed, latches, removed, held>>

\* The callback returns after the notify: the state guard is dropped.
CallbackReturn ==
    /\ cb_pc = "return"
    /\ cb_pc' = "idle"
    /\ state_lock' = "free"
    /\ UNCHANGED <<params, files, output_target, error, reorder_map,
                   last_requested_frame, next_output_frame, done, done_lock,
                   pc, i, initial_requests, result, pending, history>>

Callback ==
    \E n \in 0 .. MaxFrames - 1, alpha \in BOOLEAN, ok \in BOOLEAN :
        \E wf \in IF ok THEN WriteChoices ELSE {-1} :
            FrameDoneCallback(n, alpha, ok, wf)

Create == \E header_ok \in BOOLEAN : OutputCreate(header_ok)

Finish == \E flush_ok \in BOOLEAN : OutputFinish(flush_ok)

Next ==
    \/ RunCheck
    \/ Create
    \/ OutputRequest
    \/ OutputLockDone
    \/ OutputCheck
    \/ OutputSpuriousWake
    \/ OutputReacquire
    \/ Finish
    \/ Callback
    \/ CallbackSignal
    \/ CallbackReturn

Spec == Init /\ [][Next]_vars

\* output() and the callback that fired the gate run on threads of their own:
\* a step of theirs that stays enabled is eventually taken. Nothing is
\* assumed of the completions, which the producer delivers when it likes, nor
\* of spurious wake-ups.
SpecFair ==
    /\ Spec
    /\ WF_vars(OutputRequest)
    /\ WF_vars(OutputLockDone)
    /\ WF_vars(OutputCheck)
    /\ WF_vars(OutputReacquire)
    /\ WF_vars(Finish)
    /\ WF_vars(CallbackReturn)

\* The run of ten frames with window 3 and no alpha in which the producer
\* completes frame 1 first, then frame 0, then frame 2, the rest in any
\* order, nothing fails.
ScenarioInit ==
    /\ num_frames = 10
    /\ start_frame = 0
    /\ end_frame = 9
    /\ requests = 3
    /\ have_alpha = FALSE
    /\ y4m = FALSE
    /\ has_timecodes = FALSE
    /\ InitState

ScenarioOrder(n) ==
    IF delivered = {} THEN n = 1
    ELSE IF delivered = {<<1, FALSE>>} THEN n = 0
    ELSE IF delivered = {<<0, FALSE>>, <<1, FALSE>>} THEN n = 2
    ELSE TRUE

ScenarioCallback ==
    \E n \in 0 .. 9 :
        /\ ScenarioOrder(n)
        /\ FrameDoneCallback(n, FALSE, TRUE, -1)

ScenarioNext ==
    \/ RunCheck
    \/ OutputCreate(TRUE)
    \/ OutputRequest
    \/ OutputLockDone
    \/ OutputCheck
    \/ OutputSpuriousWake
    \/ OutputReacquire
    \/ OutputFinish(TRUE)
    \/ ScenarioCallback
    \/ CallbackSignal
    \/ CallbackReturn

SpecScenario == ScenarioInit /\ [][ScenarioNext]_vars

----------------------------------------------------------------------------
\* Properties.

\* output() has created its shared state (it did not return an error before).
Created ==
    /\ pc \notin {"run", "output"}
    /\ result[1] \notin {"config_error", "header_error"}

\* Every request issued so far has had its callback run to the end.
Quiescent ==
    Created /\ i = initial_requests /\ pending = {} /\ cb_pc = "idle"

\* No producer failure and no failed write so far.
NoFailure == failed = {} /\ write_failed = {}

\* The sequence 0, 1, .., len-1.
Ascending(len) == [k \in 1 .. len |-> k - 1]

\* C1: for a range 0..N-1, when every completion is successful and no write
\* fails, the frames handed to the sink are 0, 1, 2, .. in ascending order,
\* each once, whatever the order of the completions; and they are all of
\* 0..N-1 once every issued request has completed and when the done flag is set.
C1_AscendingExactlyOnce ==
    (start_frame = 0 /\ NoFailure) =>
        /\ Len(output_target) <= end_frame + 1
        /\ output_target = Ascending(Len(output_target))
        /\ (Quiescent \/ done) => Len(output_target) = end_frame + 1

\* A finished run of three frames with alpha in which a frame completed ahead
\* of its turn and waited in the reorder map.
C1_Witness ==
    /\ start_frame = 0 /\ end_frame = 2 /\ have_alpha /\ NoFailure
    /\ done /\ held # {}
    /\ output_target = <<0, 1, 2>>

\* C2: with an alpha node, a frame handed to the sink has had both its primary
\* and its alpha completion delivered.
C2_BothHalvesBeforeEmission ==
    have_alpha =>
        \A k \in 1 .. Len(output_target) :
            /\ <<output_target[k], FALSE>> \in delivered
            /\ <<output_target[k], TRUE>> \in delivered

\* Frame 0 was emitted while frame 1 has only its alpha half.
C2_Witness ==
    /\ have_alpha
    /\ output_target = <<0>>
    /\ 1 \in DOMAIN reorder_map
    /\ reorder_map[1] = <<FALSE, TRUE>>

\* C3 (as claimed): for every valid range, start_frame > 0 included, once every
\* issued request has completed successfully and no write has failed, the
\* done flag is set.
C3_ValidRangeReachesDone ==
    (Quiescent /\ NoFailure) => done

\* The indices get_frame_async was called for.
Requested == {issued[k][1] : k \in 1 .. Len(issued)}

\* The slots of the reorder map that are complete and wait for their turn.
Waiting == {k \in DOMAIN reorder_map : is_completed(reorder_map[k], have_alpha)}

\* C4 (as claimed): at most window_size indices are requested and not yet
\* removed from the reorder map by the drain loop.
C4_InFlightAtMostWindow ==
    Cardinality(Requested \ removed) <= requests

\* C4 (amended): the indices requested and not yet removed by the drain loop
\* are at most window_size plus the complete slots waiting in the reorder map:
\* a request is issued per completed index, not per emitted one.
C4_InFlightAtMostWindowPlusWaiting ==
    Cardinality(Requested \ removed) <= requests + Cardinality(Waiting)

\* Window 2 over three frames: frames 1 and 2 are complete and wait for frame
\* 0, which is still outstanding, so three indices are in flight.
C4_Witness ==
    /\ requests = 2
    /\ Requested \ removed = {0, 1, 2}
    /\ Waiting = {1, 2}
    /\ <<0, FALSE>> \in pending

\* C5 (as claimed): after a producer failure, once every other request has
\* completed, the done flag is set.
C5_FailureReachesDone ==
    (Quiescent /\ failed # {}) => done

\* C6 (as claimed): once an error is latched no further request is issued.
C6_NoRequestAfterLatch ==
    [][error # NoError =>
         /\ issued' = issued
         /\ last_requested_frame' = last_requested_frame]_vars

\* s is a prefix of t.
IsPrefix(s, t) == Len(s) <= Len(t) /\ SubSeq(t, 1, Len(s)) = s

\* C7: no frame with an index >= k is handed to the sink once the producer
\* has failed for k; once an error is latched nothing more is handed to the
\* sink; and the frames handed to the sink only grow by appending.
C7_NoEmissionAfterError ==
    /\ [](\A f \in failed : \A k \in 1 .. Len(output_target) :
              output_target[k] < f[1])
    /\ [][/\ IsPrefix(output_target, output_target')
          /\ error # NoError => output_target' = output_target]_vars

\* A write failed on frame 1 after frame 0 was written, and frame 2 was then
\* removed by the drain loop without being handed to the sink.
C7_Witness ==
    /\ write_failed = {1}
    /\ error # NoError
    /\ output_target = <<0, 1>>
    /\ removed = {0, 1, 2}

\* C8 (as claimed): once an (index, error) pair is latched it is never changed.
C8_FirstWriteWins ==
    [][error # NoError => error' = error]_vars

\* The indices at which something failed: producer failures and failed writes.
FailureIndices == {f[1] : f \in failed} \cup write_failed

\* C9 (as claimed): the index of the error output() returns is the lowest index
\* at which something failed during the run.
C9_LowestFailureReported ==
    (pc = "returned" /\ result[1] = "error") =>
        /\ FailureIndices # {}
        /\ \A k \in FailureIndices : result[2] <= k
        /\ result[2] \in FailureIndices

\* C10: the done flag is set only in a state where next_output_frame is
\* end_frame + 1, at most once, and never reset; output() is past its wait
\* only when the flag is set.
C10_GateOneShot ==
    /\ [](/\ done => next_output_frame = end_frame + 1
          /\ notifies <= 1
          /\ done <=> notifies = 1
          /\ (Created /\ pc \in {"lock_state", "returned"}) =>
                 done /\ next_output_frame = end_frame + 1)
    /\ [][/\ done => done'
          /\ notifies' # notifies => next_output_frame = end_frame + 1]_vars

\* output() has returned after the one notify of the run.
C10_Witness ==
    /\ pc = "returned"
    /\ done
    /\ notifies = 1
    /\ next_output_frame = end_frame + 1

\* C11: when output() returns after the wait, its result is success exactly
\* when no error is latched and the flush succeeded, and it is the latched
\* (index, error) pair when an error is latched.
C11_ResultFollowsLatch ==
    (Created /\ pc = "returned") =>
        /\ result = <<"ok">> <=> (error = NoError /\ flush = "ok")
        /\ error # NoError => result = <<"error", error[1], error[2]>>

\* output() returned the error that a failed write latched.
C11_Witness ==
    /\ pc = "returned"
    /\ done
    /\ error # NoError
    /\ result = <<"error", error[1], error[2]>>

\* C12 (as claimed): at the end of the pipeline the sink is flushed, and a
\* flush failure is the result only when no error was latched.
C12_FlushedAtEnd ==
    (Created /\ pc = "returned") =>
        /\ flush # "none"
        /\ result = <<"flush_error">> => error = NoError

\* C12 (amended): at the end of the pipeline the sink is flushed exactly when
\* no error was latched; a flush failure is then the result; with an error
\* latched output() returns it without flushing.
C12_FlushOnlyWithoutError ==
    (Created /\ pc = "returned") =>
        /\ flush # "none" <=> error = NoError
        /\ result = <<"flush_error">> <=> flush = "failed"
        /\ error # NoError => result[1] = "error"

\* A run without any error whose flush failed.
C12_Witness ==
    /\ pc = "returned"
    /\ done
    /\ error = NoError
    /\ flush = "failed"
    /\ result = <<"flush_error">>

\* The configuration is one run() or output() rejects.
InvalidConfiguration ==
    \/ start_frame < 0
    \/ end_frame < start_frame
    \/ end_frame >= num_frames
    \/ (y4m /\ have_alpha)

\* C13: with an invalid range, or y4m together with alpha, the error is
\* returned before any request is issued: nothing is requested, nothing is
\* written, and the wait on the done flag is never entered.
C13_ConfigurationErrorFirst ==
    /\ InvalidConfiguration =>
          /\ pc \in {"run", "output", "returned"}
          /\ pc = "returned" => result[1] = "config_error"
          /\ issued = <<>> /\ pending = {}
          /\ output_target = <<>> /\ timecodes_file = <<>>
          /\ done_lock = "free" /\ ~done
    /\ result[1] = "config_error" => InvalidConfiguration

\* y4m was asked for a clip with alpha over a valid range: output() returned.
C13_Witness ==
    /\ start_frame = 0 /\ end_frame = 2
    /\ pc = "returned"
    /\ result = <<"config_error", "y4m with alpha">>

\* C14 (as claimed): the initial loop issues min(window_size, end - start + 1)
\* requests per stream, for the indices start, start + 1, ..
C14_InitialRequestsFromStart ==
    /\ [](Created =>
            /\ i <= Min(requests, end_frame - start_frame + 1)
            /\ pc # "request" => i = Min(requests, end_frame - start_frame + 1))
    /\ [][i' # i =>
            issued' = issued \o request_pair(start_frame + i, have_alpha)]_vars

\* The per-frame records of the timecodes file: its lines after the header.
TimecodeRecords == Len(timecodes_file) - Len(timecodes_header(TRUE))

\* C16 (as claimed): with a timecodes file, one record is appended to it for
\* each frame emitted to the primary sink.
C16_OneRecordPerFrame ==
    (Created /\ has_timecodes /\ NoFailure) =>
        TimecodeRecords = Len(output_target)

\* C17 (as claimed): the state output() creates has next_output_frame = start
\* and last_requested_frame = start + initial_window - 1.
C17_InitialWindowState ==
    (pc = "request" /\ i = 0) =>
        /\ next_output_frame = start_frame
        /\ last_requested_frame =
               start_frame + Min(requests, end_frame - start_frame + 1) - 1

\* C18: each index is requested at most once per stream and none above
\* end_frame; a callback issues at most one request pair, only when its
\* completion makes a slot complete, for last_requested_frame + 1, and
\* increments last_requested_frame in the same step.
C18_NoDoubleIssue ==
    /\ [](/\ \A j, k \in 1 .. Len(issued) : issued[j] = issued[k] => j = k
          /\ \A k \in 1 .. Len(issued) : issued[k][1] <= end_frame)
    /\ [][(i' = i /\ issued' # issued) =>
            /\ issued' = issued \o request_pair(last_requested_frame + 1,
                                                have_alpha)
            /\ last_requested_frame' = last_requested_frame + 1
            /\ \E d \in delivered' \ delivered :
                  /\ <<d[1], FALSE>> \in delivered'
                  /\ have_alpha => <<d[1], TRUE>> \in delivered'
                  /\ d[1] \notin Waiting]_vars
    /\ [][(Created /\ i' = i /\ issued' = issued) =>
            last_requested_frame' = last_requested_frame]_vars

\* With alpha, the callbacks have requested frame 2 once per stream: both
\* halves of frames 0 and 1 were delivered.
C18_Witness ==
    /\ have_alpha
    /\ requests = 1
    /\ issued = <<(<<0, FALSE>>), (<<0, TRUE>>), (<<1, FALSE>>), (<<1, TRUE>>),
                  (<<2, FALSE>>), (<<2, TRUE>>)>>

\* C19: next_output_frame <= last_requested_frame + 1 <= end_frame + 1.
C19_WindowOrder ==
    Created =>
        /\ next_output_frame <= last_requested_frame + 1
        /\ last_requested_frame + 1 <= end_frame + 1

\* Both inequalities are equalities at the end of a run of three frames.
C19_Witness ==
    /\ Created
    /\ end_frame = 2
    /\ last_requested_frame = 2
    /\ next_output_frame = 3

\* The indices of which a half was delivered successfully.
DeliveredIndices == {d[1] : d \in delivered}

\* C20: the reorder map holds only indices between next_output_frame and
\* last_requested_frame: a slot exists from the first successful completion
\* of its index until the drain loop has advanced next_output_frame past it.
C20_ReorderMapRange ==
    /\ \A n \in DOMAIN reorder_map :
           next_output_frame <= n /\ n <= last_requested_frame
    /\ DOMAIN reorder_map =
           {n \in DeliveredIndices : n >= next_output_frame}

\* Frame 0 has been drained, frame 2 waits complete, half of frame 1 is there.
C20_Witness ==
    /\ have_alpha
    /\ next_output_frame = 1
    /\ DOMAIN reorder_map = {1, 2}
    /\ reorder_map[1] = <<TRUE, FALSE>>
    /\ reorder_map[2] = <<TRUE, TRUE>>

\* The callback of frame n ran in this step, after those of the frames in
\* before.
Completes(before, n) ==
    /\ delivered = {<<k, FALSE>> : k \in before}
    /\ delivered' = delivered \cup {<<n, FALSE>>}

\* The frames 0 .. 9 have been emitted and output() did not return an error.
ScenarioEnd ==
    /\ Quiescent => (done /\ output_target = Ascending(10))
    /\ pc = "returned" => result = <<"ok">>

\* C15 (as claimed): ten frames, window 3, completions 1, 0, 2: nothing is
\* emitted after 1; the callback of 0 emits 0 and 1 and requests 3; the
\* callback of 2 emits 2 and requests 4; in the end 9 is emitted and
\* output() reports success.
C15_ScenarioAsClaimed ==
    /\ [][/\ Completes({}, 1) => output_target' = <<>>
          /\ Completes({1}, 0) =>
                 /\ output_target' = <<0, 1>>
                 /\ issued' = Append(issued, <<3, FALSE>>)
          /\ Completes({0, 1}, 2) =>
                 /\ output_target' = <<0, 1, 2>>
                 /\ issued' = Append(issued, <<4, FALSE>>)]_vars
    /\ []ScenarioEnd

\* C15 (amended): each completed frame triggers a request: the callback of 1
\* emits nothing and requests 3; the callback of 0 emits 0 and 1 and requests
\* 4; the callback of 2 emits 2 and requests 5; in the end 9 is emitted and
\* output() reports success.
C15_ScenarioRequestPerCompletion ==
    /\ [][/\ Completes({}, 1) =>
                 /\ output_target' = <<>>
                 /\ issued' = Append(issued, <<3, FALSE>>)
          /\ Completes({1}, 0) =>
                 /\ output_target' = <<0, 1>>
                 /\ issued' = Append(issued, <<4, FALSE>>)
          /\ Completes({0, 1}, 2) =>
                 /\ output_target' = <<0, 1, 2>>
                 /\ issued' = Append(issued, <<5, FALSE>>)]_vars
    /\ []ScenarioEnd

\* The scenario ran to its end: ten frames in order, success.
C15_Witness ==
    /\ end_frame = 9 /\ requests = 3
    /\ {<<0, FALSE>>, <<1, FALSE>>, <<2, FALSE>>} \subseteq delivered
    /\ pc = "returned"
    /\ result = <<"ok">>
    /\ output_target = Ascending(10)

\* C21 (as claimed): after a write to the sink has failed, when every producer
\* completion is successful, once every issued request has completed the
\* drain loop has advanced next_output_frame to end_frame + 1 and the done
\* flag is set; and output() then returns the latched error.
C21_WriteFailureReachesDone ==
    /\ (Quiescent /\ write_failed # {} /\ failed = {}) =>
           done /\ next_output_frame = end_frame + 1
    /\ (Created /\ pc = "returned" /\ write_failed # {}) =>
           result[1] = "error"

\* The requested indices whose slot is not complete: the primary frame, or
\* with an alpha node the alpha frame, has not been delivered.
Incomplete ==
    {n \in Requested :
         ~(/\ <<n, FALSE>> \in delivered
           /\ have_alpha => <<n, TRUE>> \in delivered)}

\* C22: in every reachable state at most window_size (requests) indices are
\* requested and not yet complete, producer failures, failed writes and every
\* completion order included.
C22_IncompleteAtMostWindow ==
    Cardinality(Incomplete) <= requests

\* Window 2 with an alpha node after a producer failure and a failed write:
\* two indices are incomplete, one of them with one half delivered, while
\* three have been requested.
C22_Witness ==
    /\ requests = 2 /\ have_alpha
    /\ failed # {} /\ write_failed # {}
    /\ Cardinality(Requested) = 3
    /\ Cardinality(Incomplete) = 2
    /\ \E n \in Incomplete : <<n, TRUE>> \in delivered

\* output() holds the done-flag lock and waits for the state lock.
OutputBlockedOnState ==
    pc = "lock_state" /\ done_lock = "output" /\ state_lock = "callback"

\* A callback holds the state lock and waits for the done-flag lock.
CallbackBlockedOnDone ==
    cb_pc = "signal" /\ state_lock = "callback" /\ done_lock = "output"

\* C23: no reachable state has output() holding the done-flag lock and
\* blocked on the state lock while a callback holds the state lock and is
\* blocked on the done-flag lock; and a thread that holds one lock and waits
\* for the other can always be released by a step of the thread that holds it.
C23_NoLockOrderDeadlock ==
    /\ ~(OutputBlockedOnState /\ CallbackBlockedOnDone)
    /\ OutputBlockedOnState => ENABLED CallbackReturn
    /\ CallbackBlockedOnDone => ENABLED (OutputCheck \/ Finish)

\* Both halves of the opposite order happen, one at a time: output() holds the
\* done-flag lock and waits for the state lock that the signalling callback
\* still holds after its notify.
C23_Witness ==
    /\ OutputBlockedOnState
    /\ cb_pc = "return"
    /\ done

\* C24: the done flag is never true while output() is blocked in cvar.wait: a
\* notify sent before output() waits, or between a wake-up and its re-check,
\* is not lost, because output() reads the flag under the done-flag lock before
\* it waits; output() reading done = true leaves the loop; and once the flag
\* is true output() is never stuck: until it has returned, a step of output()
\* or the return of the signalling callback is enabled, and output()
\* eventually returns.
C24_NoLostWakeup ==
    /\ [](/\ done => pc # "wait"
          /\ (done /\ Created /\ pc # "returned") =>
                 ENABLED (\/ OutputRequest \/ OutputLockDone \/ OutputCheck
                          \/ OutputReacquire \/ Finish \/ CallbackReturn))
    /\ [][/\ (done /\ pc = "check" /\ pc' # pc) => pc' = "lock_state"
          /\ (done /\ pc # "returned") => pc' # "wait"]_vars
    /\ done ~> (pc = "returned")

\* The flag was set and the notify sent before output() took the done-flag
\* lock for the first time: nobody was waiting.
C24_Witness ==
    /\ done /\ notifies = 1
    /\ pc = "request"
    /\ cb_pc = "idle"

\* The notify arrived between a spurious wake-up and the re-check of the flag.
C24_WitnessRecheck ==
    /\ done /\ notifies = 1
    /\ pc = "woken"

\* C25 (as claimed): the error latched for a failed write carries the index of
\* the frame whose write failed, also when the drain loop ran in the callback
\* of another index.
C25_WriteErrorCarriesFrameIndex ==
    (error # NoError /\ error[2] = "write") => error[1] \in write_failed

\* C26: the callback of a failed completion changes only the error record:
\* the reorder map, last_requested_frame and next_output_frame are unchanged,
\* no request is issued, nothing is handed to the sink or removed by the drain
\* loop, and the callback does not fire the gate; the record then carries the
\* index of the failed completion.
C26_FailureChangesOnlyError ==
    [][failed' # failed =>
         /\ reorder_map' = reorder_map
         /\ last_requested_frame' = last_requested_frame
         /\ next_output_frame' = next_output_frame
         /\ issued' = issued
         /\ pending' \subseteq pending
         /\ output_target' = output_target
         /\ removed' = removed
         /\ UNCHANGED <<files, done, notifies>>
         /\ cb_pc' = "idle"
         /\ \E f \in failed' \ failed : error' = <<f[1], "get_frame">>]_vars

\* A completion failed in the middle of a run: a frame had been written, a
\* complete slot was waiting in the reorder map and a request was pending.
C26_Witness ==
    /\ failed # {}
    /\ output_target # <<>>
    /\ Waiting # {}
    /\ pending # {}
    /\ error[2] = "get_frame"

\* C27: whenever the done flag is true the reorder map is empty and every
\* issued request has had its completion delivered successfully, none is
\* pending; from then on no callback runs: nothing more is delivered, fails,
\* is requested or is handed to the sink, so the state output() reads after
\* the gate is final.
C27_NothingLeftAtDone ==
    /\ [](done =>
            /\ DOMAIN reorder_map = {}
            /\ pending = {}
            /\ i = initial_requests
            /\ failed = {}
            /\ \A k \in 1 .. Len(issued) : issued[k] \in delivered
            /\ Requested = removed
            /\ cb_pc \in {"return", "idle"})
    /\ [][done => UNCHANGED <<delivered, failed, issued, pending, reorder_map,
                              output_target, error, next_output_frame,
                              last_requested_frame>>]_vars

\* The gate has fired after out-of-order completions of a clip with an alpha
\* node, a failed write included, and output() is about to read the state.
C27_Witness ==
    /\ done /\ have_alpha
    /\ held # {}
    /\ write_failed # {}
    /\ Len(issued) = 2 * (end_frame + 1)
    /\ pc = "lock_state"
    /\ state_lock = "free"

====
